---- MODULE Spec2Model ----
(***************************************************************************)
(* Model of checkfort's forcheck report parser (checkfort/parser.py):      *)
(* the ParserState aggregation store, the three stage parsers and the      *)
(* page- and stage-aware driver ForcheckParser._parse.                     *)
(*                                                                         *)
(* Text is modelled as a sequence of lexical atoms.  An atom is either a   *)
(* single character (" ", "\f", a digit, a severity letter, "]", ":")      *)
(* or a run of characters that the code only ever treats as a unit         *)
(* ("**[", "(file: ", ", line:", "x[", "number of ", "../", a sentinel,   *)
(* a word).  The line terminator is left out: every use of a line in the   *)
(* code either strips it or looks at the start of the line only.           *)
(***************************************************************************)
EXTENDS Integers, Sequences, FiniteSets, TLC

VARIABLES
    state,        \* ForcheckParser.state : the ParserState record
    err,          \* exception that ended the run ("none" while running)
    call,         \* the last ParserState operation called, with its arguments
    pc,           \* position of _parse: "header", "loop", "done", "error"
    stage,        \* index of the active stage in the stages tuple (1..4)
    target_file,  \* _parse's target_file
    lines,        \* _parse's lines tuple (current, previous, previous-1)
    hdr,          \* lines consumed by the running/last forward_to_content
    disp,         \* what the last step of _parse did with the line it read
    copied,       \* the listfile was copied to forcheck_listfile.debug
    npages,       \* calls of forward_to_content so far
    nread,        \* lines read from the listfile so far
    ncalls        \* operations applied so far (state-level specification)

vars == <<state, err, call, pc, stage, target_file, lines, hdr, disp, copied,
          npages, nread, ncalls>>

parserVars == <<pc, stage, target_file, lines, hdr, disp, copied, npages, nread>>

(***************************************************************************)
(* Bounds                                                                  *)
(***************************************************************************)
MaxCalls == 3
MaxLines == 7

(***************************************************************************)
(* Strings                                                                 *)
(***************************************************************************)
\* python None for a string-valued slot; no text of a report produces it
None == <<"<None>">>
\* python None for EventInstance.linenum
NoLine == -1

Whitespace == {" ", "\f"}
Digits == {"0", "1", "2", "3", "4", "7"}
Severity == {"I", "E", "W", "O"}

DigitVal(d) ==
    CASE d = "0" -> 0 [] d = "1" -> 1 [] d = "2" -> 2 [] d = "3" -> 3
      [] d = "4" -> 4 [] d = "7" -> 7

\* int(s) for a string of digits
RECURSIVE IntOf(_)
IntOf(s) ==
    IF s = <<>> THEN 0
    ELSE 10 * IntOf(SubSeq(s, 1, Len(s) - 1)) + DigitVal(s[Len(s)])

Drop(s, n) == SubSeq(s, n + 1, Len(s))

RECURSIVE LStrip(_)
LStrip(s) ==
    IF s # <<>> /\ Head(s) \in Whitespace THEN LStrip(Tail(s)) ELSE s

RECURSIVE RStrip(_)
RStrip(s) ==
    IF s # <<>> /\ s[Len(s)] \in Whitespace
    THEN RStrip(SubSeq(s, 1, Len(s) - 1)) ELSE s

\* str.strip()
Strip(s) == RStrip(LStrip(s))

\* str.startswith(p)
StartsWith(s, p) == Len(s) >= Len(p) /\ SubSeq(s, 1, Len(p)) = p

\* longest prefix of s made of atoms of set S
RECURSIVE TakeWhile(_, _)
TakeWhile(s, S) ==
    IF s # <<>> /\ Head(s) \in S THEN <<Head(s)>> \o TakeWhile(Tail(s), S) ELSE <<>>

\* longest prefix of s with no atom of set S
RECURSIVE TakeUntil(_, _)
TakeUntil(s, S) ==
    IF s # <<>> /\ Head(s) \notin S THEN <<Head(s)>> \o TakeUntil(Tail(s), S) ELSE <<>>

\* longest suffix of s with no whitespace
RECURSIVE LastRun(_)
LastRun(s) ==
    IF s # <<>> /\ s[Len(s)] \notin Whitespace
    THEN LastRun(SubSeq(s, 1, Len(s) - 1)) \o <<s[Len(s)]>> ELSE <<>>

\* s.rsplit(None, 1)[-1] for a line that is not blank
RSplitLast(s) == LastRun(RStrip(s))

\* s.split(None, 1)[0]
SplitFirst(s) == TakeUntil(LStrip(s), Whitespace)

\* "../" in s
HasParentSegment(s) == \E i \in 1..Len(s) : s[i] = "../"

(***************************************************************************)
(* dict / defaultdict                                                      *)
(***************************************************************************)
EmptyMap == <<>>

\* d[k] = v
Put(d, k, v) == [x \in (DOMAIN d) \cup {k} |-> IF x = k THEN v ELSE d[x]]

\* value read by d[k] on a defaultdict whose factory yields dflt
Get(d, k, dflt) == IF k \in DOMAIN d THEN d[k] ELSE dflt

\* the defaultdict after d[k] was read: a missing key is inserted
Touch(d, k, dflt) == IF k \in DOMAIN d THEN d ELSE Put(d, k, dflt)

(***************************************************************************)
(* EventInstance and ParserState                                           *)
(***************************************************************************)
\* the assertion of EventInstance.__init__
EventInstanceOk(filename) ==
    filename = None \/ filename = <<>> \/ ~HasParentSegment(filename)

\* linenum is None or a string of digits (the int 0 of FileEvent.slurp is
\* passed as the string "0": int() gives 0 for both)
EventInstance(code, culprit, linenum, filename) ==
    [code |-> code, culprit |-> culprit, filename |-> filename,
     linenum |-> IF linenum = None THEN NoLine ELSE IntOf(linenum)]

ParserState(legacy_mode, ignore_list) ==
    [legacy_mode |-> legacy_mode,
     sums |-> EmptyMap,
     event_message |-> EmptyMap,
     event_counter |-> EmptyMap,
     event_instances |-> EmptyMap,
     file_events |-> EmptyMap,
     ignore_list |-> ignore_list,
     debug_required |-> FALSE]

\* variant: the numeric part is compared as text, so "01" is not 1
_should_ignore_text(st, code) ==
    IF st.ignore_list = {} THEN FALSE
    ELSE Len(SplitFirst(code)) = 1 /\ IntOf(SplitFirst(code)) \in st.ignore_list

_should_ignore(st, code) ==
    IF st.ignore_list = {} THEN FALSE
    ELSE IntOf(SplitFirst(code)) \in st.ignore_list

\* variant: the instance is put at the front of the list of its code
_store_event_prepend(st, code, message, instance) ==
    IF _should_ignore(st, code) THEN st
    ELSE
      LET s1 == [st EXCEPT
                   !.event_instances = Put(@, code, <<instance>> \o Get(@, code, <<>>)),
                   !.event_counter = Put(@, code, Get(@, code, 0) + 1)]
      IN  IF code \notin DOMAIN s1.event_message
          THEN [s1 EXCEPT !.event_message = Put(@, code, message)]
          ELSE IF message # s1.event_message[code]
               THEN [s1 EXCEPT !.debug_required = TRUE]
               ELSE s1

\* variant: the counter is set to 1 instead of being incremented
_store_event_reset(st, code, message, instance) ==
    IF _should_ignore(st, code) THEN st
    ELSE
      LET s1 == [st EXCEPT
                   !.event_instances = Put(@, code, Get(@, code, <<>>) \o <<instance>>),
                   !.event_counter = Put(@, code, 1)]
      IN  IF code \notin DOMAIN s1.event_message
          THEN [s1 EXCEPT !.event_message = Put(@, code, message)]
          ELSE IF message # s1.event_message[code]
               THEN [s1 EXCEPT !.debug_required = TRUE]
               ELSE s1

\* variant: the last message seen wins
_store_event_lastwins(st, code, message, instance) ==
    IF _should_ignore(st, code) THEN st
    ELSE
      LET s1 == [st EXCEPT
                   !.event_instances = Put(@, code, Get(@, code, <<>>) \o <<instance>>),
                   !.event_counter = Put(@, code, Get(@, code, 0) + 1)]
      IN  IF code \notin DOMAIN s1.event_message
          THEN [s1 EXCEPT !.event_message = Put(@, code, message)]
          ELSE IF message # s1.event_message[code]
               THEN [s1 EXCEPT !.debug_required = TRUE,
                               !.event_message = Put(@, code, message)]
               ELSE s1

_store_event(st, code, message, instance) ==
    IF _should_ignore(st, code) THEN st
    ELSE
      LET s1 == [st EXCEPT
                   !.event_instances = Put(@, code, Get(@, code, <<>>) \o <<instance>>),
                   !.event_counter = Put(@, code, Get(@, code, 0) + 1)]
      IN  IF code \notin DOMAIN s1.event_message
          THEN [s1 EXCEPT !.event_message = Put(@, code, message)]
          ELSE IF message # s1.event_message[code]
               THEN [s1 EXCEPT !.debug_required = TRUE]
               ELSE s1

\* variant: a total already stored for the name is kept
store_sums_keep(st, name, total) ==
    IF name \in DOMAIN st.sums THEN st ELSE [st EXCEPT !.sums = Put(@, name, total)]

store_sums(st, name, total) == [st EXCEPT !.sums = Put(@, name, total)]

\* result of an operation: the ParserState it leaves and the exception raised
Ret(st, e) == [st |-> st, err |-> e]

\* variant: the file index gets an instance of its own, without culprit
store_file_event_copy(st, filename, linenum, code, message, culprit) ==
    IF _should_ignore(st, code) THEN Ret(st, "none")
    ELSE IF ~EventInstanceOk(filename) THEN Ret(st, "AssertionError")
    ELSE
      LET instance == EventInstance(code, culprit, linenum, filename)
          s1 == _store_event(st, code, message, instance)
      IN  IF filename # None
          THEN Ret([s1 EXCEPT !.file_events =
                        Put(@, filename, Get(@, filename, <<>>)
                                           \o <<EventInstance(code, <<>>, linenum, filename)>>)],
                   "none")
          ELSE Ret(s1, "none")

\* variant: the file path is checked after the event was stored by code
store_file_event_lateassert(st, filename, linenum, code, message, culprit) ==
    IF _should_ignore(st, code) THEN Ret(st, "none")
    ELSE
      LET instance == EventInstance(code, culprit, linenum, filename)
          s1 == _store_event(st, code, message, instance)
      IN  IF ~EventInstanceOk(filename) THEN Ret(s1, "AssertionError")
          ELSE IF filename # None
          THEN Ret([s1 EXCEPT !.file_events =
                        Put(@, filename, Get(@, filename, <<>>) \o <<instance>>)],
                   "none")
          ELSE Ret(s1, "none")

\* variant: an instance at line 0 is not entered in the file index
store_file_event_nolist0(st, filename, linenum, code, message, culprit) ==
    IF _should_ignore(st, code) THEN Ret(st, "none")
    ELSE IF ~EventInstanceOk(filename) THEN Ret(st, "AssertionError")
    ELSE
      LET instance == EventInstance(code, culprit, linenum, filename)
          s1 == _store_event(st, code, message, instance)
      IN  IF filename # None /\ IntOf(linenum) # 0
          THEN Ret([s1 EXCEPT !.file_events =
                        Put(@, filename, Get(@, filename, <<>>) \o <<instance>>)],
                   "none")
          ELSE Ret(s1, "none")

store_file_event(st, filename, linenum, code, message, culprit) ==
    IF _should_ignore(st, code) THEN Ret(st, "none")
    ELSE IF ~EventInstanceOk(filename) THEN Ret(st, "AssertionError")
    ELSE
      LET instance == EventInstance(code, culprit, linenum, filename)
          s1 == _store_event(st, code, message, instance)
      IN  IF filename # None
          THEN Ret([s1 EXCEPT !.file_events =
                        Put(@, filename, Get(@, filename, <<>>) \o <<instance>>)],
                   "none")
          ELSE Ret(s1, "none")

store_global_event(st, code, message, details) ==
    IF _should_ignore(st, code) THEN Ret(st, "none")
    ELSE Ret(_store_event(st, code, message,
                          EventInstance(code, details, None, None)), "none")

\* variant: the tally of an ignored code is compared as well
validate_sums_noignore(st, count, code, message) ==
    LET s1 == [st EXCEPT !.event_counter = Touch(@, code, 0)]
    IN  IF s1.event_counter[code] # IntOf(count)
        THEN [s1 EXCEPT !.debug_required = TRUE]
        ELSE s1

\* variant: on a mismatch the tool's tally replaces the local count
validate_sums_adopt(st, count, code, message) ==
    IF _should_ignore(st, code) THEN st
    ELSE
      LET s1 == [st EXCEPT !.event_counter = Touch(@, code, 0)]
      IN  IF s1.event_counter[code] # IntOf(count)
          THEN [s1 EXCEPT !.debug_required = TRUE,
                          !.event_counter = Put(@, code, IntOf(count))]
          ELSE s1

validate_sums(st, count, code, message) ==
    IF _should_ignore(st, code) THEN st
    ELSE
      LET s1 == [st EXCEPT !.event_counter = Touch(@, code, 0)]
      IN  IF s1.event_counter[code] # IntOf(count)
          THEN [s1 EXCEPT !.debug_required = TRUE]
          ELSE s1

(***************************************************************************)
(* Event: the precompiled patterns, each applied with re.match             *)
(***************************************************************************)
NoMatch == [ok |-> FALSE, g1 |-> <<>>, g2 |-> <<>>, g3 |-> <<>>]

\* the shared tail  \s*(\d+ [IEWO])\] (.*)  of re_err and re_summary,
\* applied to the text after the opening bracket: g1 is the code, g2 the rest
CodeTail(s) ==
    LET r1 == LStrip(s)
        ds == TakeWhile(r1, Digits)
        r2 == Drop(r1, Len(ds))
    IN  IF /\ Len(ds) > 0
           /\ Len(r2) >= 4
           /\ r2[1] = " "
           /\ r2[2] \in Severity
           /\ r2[3] = "]"
           /\ r2[4] = " "
        THEN [ok |-> TRUE, g1 |-> ds \o <<" ", r2[2]>>, g2 |-> Drop(r2, 4), g3 |-> <<>>]
        ELSE NoMatch

\* ^\*\*\[\s*(\d+ [IEWO])\] (.*)      g1 = code, g2 = message
re_err(line) ==
    IF StartsWith(line, <<"**[">>) THEN CodeTail(Tail(line)) ELSE NoMatch

\* ^\(file: ([^,]+), line:\s+(\d+)\)  g1 = filename, g2 = linenum
re_file(line) ==
    IF ~StartsWith(line, <<"(file: ">>) THEN NoMatch
    ELSE
      LET fn == TakeUntil(Tail(line), {", line:"})
          r1 == Drop(Tail(line), Len(fn))
          r2 == IF r1 = <<>> THEN <<>> ELSE Tail(r1)
          ws == TakeWhile(r2, Whitespace)
          r3 == Drop(r2, Len(ws))
          ds == TakeWhile(r3, Digits)
          r4 == Drop(r3, Len(ds))
      IN  IF /\ Len(fn) > 0
             /\ r1 # <<>>
             /\ Len(ws) > 0
             /\ Len(ds) > 0
             /\ r4 # <<>>
             /\ Head(r4) = ")"
          THEN [ok |-> TRUE, g1 |-> fn, g2 |-> ds, g3 |-> <<>>]
          ELSE NoMatch

\* ^(\d+)x\[\s*(\d+ [IEWO])\] (.+)    g1 = count, g2 = code, g3 = message
re_summary(line) ==
    LET cnt == TakeWhile(line, Digits)
        r1 == Drop(line, Len(cnt))
        m == IF r1 = <<>> THEN NoMatch ELSE CodeTail(Tail(r1))
    IN  IF /\ Len(cnt) > 0
           /\ r1 # <<>>
           /\ Head(r1) = "x["
           /\ m.ok
           /\ m.g2 # <<>>
        THEN [ok |-> TRUE, g1 |-> cnt, g2 |-> m.g1, g3 |-> m.g2]
        ELSE NoMatch

\* number of ([^:]*?):\s+(\d+)        g1 = label, g2 = total
re_numof(line) ==
    IF ~StartsWith(line, <<"number of ">>) THEN NoMatch
    ELSE
      LET lb == TakeUntil(Tail(line), {":"})
          r1 == Drop(Tail(line), Len(lb))
          r2 == IF r1 = <<>> THEN <<>> ELSE Tail(r1)
          ws == TakeWhile(r2, Whitespace)
          ds == TakeWhile(Drop(r2, Len(ws)), Digits)
      IN  IF r1 # <<>> /\ Len(ws) > 0 /\ Len(ds) > 0
          THEN [ok |-> TRUE, g1 |-> lb, g2 |-> ds, g3 |-> <<>>]
          ELSE NoMatch

(***************************************************************************)
(* Stage parsers                                                           *)
(***************************************************************************)
\* variant: in legacy mode the other line is not searched for the location tag
FileEvent_slurp_legacystrict(st, target, line, line1, line2) ==
    IF ~StartsWith(line, <<"**[">>) THEN Ret(st, "none")
    ELSE
      LET culprit_line == IF st.legacy_mode THEN line2 ELSE line1
          fileinfo_line == IF st.legacy_mode THEN line1 ELSE line2
          e == re_err(line)
          f1 == re_file(fileinfo_line)
          f2 == IF st.legacy_mode THEN NoMatch ELSE re_file(culprit_line)
          filename == IF f1.ok THEN f1.g1 ELSE IF f2.ok THEN f2.g1 ELSE target
          linenum == IF f1.ok THEN f1.g2 ELSE IF f2.ok THEN f2.g2 ELSE <<"0">>
          culprit0 == IF ~f1.ok /\ f2.ok THEN <<>> ELSE culprit_line
          culprit == IF StartsWith(e.g2, <<"(">>) \/ StartsWith(e.g2, <<"(file: ">>)
                     THEN <<>> ELSE culprit0
      IN  IF ~e.ok THEN Ret(st, "ParseError")
          ELSE store_file_event(st, filename, linenum, e.g1, e.g2, culprit)

\* variant: the culprit line is searched for the location tag first
FileEvent_slurp_culpritfirst(st, target, line, line1, line2) ==
    IF ~StartsWith(line, <<"**[">>) THEN Ret(st, "none")
    ELSE
      LET culprit_line == IF st.legacy_mode THEN line2 ELSE line1
          fileinfo_line == IF st.legacy_mode THEN line1 ELSE line2
          e == re_err(line)
          f1 == re_file(fileinfo_line)
          f2 == re_file(culprit_line)
          filename == IF f2.ok THEN f2.g1 ELSE IF f1.ok THEN f1.g1 ELSE target
          linenum == IF f2.ok THEN f2.g2 ELSE IF f1.ok THEN f1.g2 ELSE <<"0">>
          culprit0 == IF f2.ok THEN <<>> ELSE culprit_line
          culprit == IF StartsWith(e.g2, <<"(">>) \/ StartsWith(e.g2, <<"(file: ">>)
                     THEN <<>> ELSE culprit0
      IN  IF ~e.ok THEN Ret(st, "ParseError")
          ELSE store_file_event(st, filename, linenum, e.g1, e.g2, culprit)

\* variant: legacy_mode is not consulted, the current order is always used
FileEvent_slurp_nolegacy(st, target, line, line1, line2) ==
    IF ~StartsWith(line, <<"**[">>) THEN Ret(st, "none")
    ELSE
      LET culprit_line == line1
          fileinfo_line == line2
          e == re_err(line)
          f1 == re_file(fileinfo_line)
          f2 == re_file(culprit_line)
          filename == IF f1.ok THEN f1.g1 ELSE IF f2.ok THEN f2.g1 ELSE target
          linenum == IF f1.ok THEN f1.g2 ELSE IF f2.ok THEN f2.g2 ELSE <<"0">>
          culprit0 == IF ~f1.ok /\ f2.ok THEN <<>> ELSE culprit_line
          culprit == IF StartsWith(e.g2, <<"(">>) \/ StartsWith(e.g2, <<"(file: ">>)
                     THEN <<>> ELSE culprit0
      IN  IF ~e.ok THEN Ret(st, "ParseError")
          ELSE store_file_event(st, filename, linenum, e.g1, e.g2, culprit)

\* variant: the culprit is kept when the message starts with "("
FileEvent_slurp_noparen(st, target, line, line1, line2) ==
    IF ~StartsWith(line, <<"**[">>) THEN Ret(st, "none")
    ELSE
      LET culprit_line == IF st.legacy_mode THEN line2 ELSE line1
          fileinfo_line == IF st.legacy_mode THEN line1 ELSE line2
          e == re_err(line)
          f1 == re_file(fileinfo_line)
          f2 == re_file(culprit_line)
          filename == IF f1.ok THEN f1.g1 ELSE IF f2.ok THEN f2.g1 ELSE target
          linenum == IF f1.ok THEN f1.g2 ELSE IF f2.ok THEN f2.g2 ELSE <<"0">>
          culprit0 == IF ~f1.ok /\ f2.ok THEN <<>> ELSE culprit_line
      IN  IF ~e.ok THEN Ret(st, "ParseError")
          ELSE store_file_event(st, filename, linenum, e.g1, e.g2, culprit0)

\* variant: a marker line that does not match the pattern is skipped
FileEvent_slurp_skipbad(st, target, line, line1, line2) ==
    IF ~StartsWith(line, <<"**[">>) THEN Ret(st, "none")
    ELSE
      LET culprit_line == IF st.legacy_mode THEN line2 ELSE line1
          fileinfo_line == IF st.legacy_mode THEN line1 ELSE line2
          e == re_err(line)
          f1 == re_file(fileinfo_line)
          f2 == re_file(culprit_line)
          filename == IF f1.ok THEN f1.g1 ELSE IF f2.ok THEN f2.g1 ELSE target
          linenum == IF f1.ok THEN f1.g2 ELSE IF f2.ok THEN f2.g2 ELSE <<"0">>
          culprit0 == IF ~f1.ok /\ f2.ok THEN <<>> ELSE culprit_line
          culprit == IF StartsWith(e.g2, <<"(">>) \/ StartsWith(e.g2, <<"(file: ">>)
                     THEN <<>> ELSE culprit0
      IN  IF ~e.ok THEN Ret(st, "none")
          ELSE store_file_event(st, filename, linenum, e.g1, e.g2, culprit)

FileEvent_slurp(st, target, line, line1, line2) ==
    IF ~StartsWith(line, <<"**[">>) THEN Ret(st, "none")
    ELSE
      LET culprit_line == IF st.legacy_mode THEN line2 ELSE line1
          fileinfo_line == IF st.legacy_mode THEN line1 ELSE line2
          e == re_err(line)
          f1 == re_file(fileinfo_line)
          f2 == re_file(culprit_line)
          filename == IF f1.ok THEN f1.g1 ELSE IF f2.ok THEN f2.g1 ELSE target
          linenum == IF f1.ok THEN f1.g2 ELSE IF f2.ok THEN f2.g2 ELSE <<"0">>
          culprit0 == IF ~f1.ok /\ f2.ok THEN <<>> ELSE culprit_line
          culprit == IF StartsWith(e.g2, <<"(">>) \/ StartsWith(e.g2, <<"(file: ">>)
                     THEN <<>> ELSE culprit0
      IN  IF ~e.ok THEN Ret(st, "ParseError")
          ELSE store_file_event(st, filename, linenum, e.g1, e.g2, culprit)

\* variant: the target file is checked for marker lines only
GlobalEvent_slurp_lateassert(st, target, line, line1, line2) ==
    IF ~StartsWith(line, <<"**[">>) THEN Ret(st, "none")
    ELSE IF target # None THEN Ret(st, "AssertionError")
    ELSE
      LET e == re_err(line)
          details == IF StartsWith(line1, <<"**[">>) THEN <<>> ELSE line1
      IN  IF ~e.ok THEN Ret(st, "ParseError")
          ELSE store_global_event(st, e.g1, e.g2, details)

\* variant: behind a marker line the details are looked for one line further back
GlobalEvent_slurp_line2(st, target, line, line1, line2) ==
    IF target # None THEN Ret(st, "AssertionError")
    ELSE IF ~StartsWith(line, <<"**[">>) THEN Ret(st, "none")
    ELSE
      LET e == re_err(line)
          details == IF StartsWith(line1, <<"**[">>) THEN line2 ELSE line1
      IN  IF ~e.ok THEN Ret(st, "ParseError")
          ELSE store_global_event(st, e.g1, e.g2, details)

\* variant: the line before is the details even when it is a marker line
GlobalEvent_slurp_always(st, target, line, line1, line2) ==
    IF target # None THEN Ret(st, "AssertionError")
    ELSE IF ~StartsWith(line, <<"**[">>) THEN Ret(st, "none")
    ELSE
      LET e == re_err(line)
      IN  IF ~e.ok THEN Ret(st, "ParseError")
          ELSE store_global_event(st, e.g1, e.g2, line1)

GlobalEvent_slurp(st, target, line, line1, line2) ==
    IF target # None THEN Ret(st, "AssertionError")
    ELSE IF ~StartsWith(line, <<"**[">>) THEN Ret(st, "none")
    ELSE
      LET e == re_err(line)
          details == IF StartsWith(line1, <<"**[">>) THEN <<>> ELSE line1
      IN  IF ~e.ok THEN Ret(st, "ParseError")
          ELSE store_global_event(st, e.g1, e.g2, details)

\* variant: the summary is read whatever the target file is
SummaryEvent_slurp_anypage(st, target, line, line1, line2) ==
    LET m == re_summary(line)
        n == re_numof(line)
    IN  IF m.ok THEN Ret(validate_sums(st, m.g1, m.g2, m.g3), "none")
        ELSE IF StartsWith(line, <<"number of ">>)
             THEN IF n.ok THEN Ret(store_sums(st, n.g1, n.g2), "none")
                  ELSE Ret(st, "AttributeError")
             ELSE Ret(st, "none")

SummaryEvent_slurp(st, target, line, line1, line2) ==
    IF target # None THEN Ret(st, "AssertionError")
    ELSE
      LET m == re_summary(line)
          n == re_numof(line)
      IN  IF m.ok THEN Ret(validate_sums(st, m.g1, m.g2, m.g3), "none")
          ELSE IF StartsWith(line, <<"number of ">>)
               THEN IF n.ok THEN Ret(store_sums(st, n.g1, n.g2), "none")
                    ELSE Ret(st, "AttributeError")
               ELSE Ret(st, "none")

(***************************************************************************)
(* ForcheckParser._parse                                                   *)
(***************************************************************************)
GlobalSentinel == <<"global", " ", "program", " ", "analysis:">>
UnitsSentinel == <<"program_units", " ", "and", " ", "procedures", " ", "analysed:">>
SummarySentinel == <<"messages", " ", "presented:">>

\* variant: the program units stage hands its lines to the summary parser
stages_unitsparsed ==
    << [name |-> "file events", end_marker |-> GlobalSentinel, parser |-> "FileEvent"],
       [name |-> "global events", end_marker |-> UnitsSentinel, parser |-> "GlobalEvent"],
       [name |-> "program units", end_marker |-> SummarySentinel, parser |-> "SummaryEvent"],
       [name |-> "forcheck summary", end_marker |-> None, parser |-> "SummaryEvent"] >>

\* the stages tuple; a stage without parser has parser "None", the last
\* stage has end_marker None
stages ==
    << [name |-> "file events", end_marker |-> GlobalSentinel, parser |-> "FileEvent"],
       [name |-> "global events", end_marker |-> UnitsSentinel, parser |-> "GlobalEvent"],
       [name |-> "program units", end_marker |-> SummarySentinel, parser |-> "None"],
       [name |-> "forcheck summary", end_marker |-> None, parser |-> "SummaryEvent"] >>

\* stage["parser"].slurp(target_file, *lines)
slurp(parser, st, target, l) ==
    CASE parser = "FileEvent" -> FileEvent_slurp(st, target, l[1], l[2], l[3])
      [] parser = "GlobalEvent" -> GlobalEvent_slurp(st, target, l[1], l[2], l[3])
      [] parser = "SummaryEvent" -> SummaryEvent_slurp(st, target, l[1], l[2], l[3])

\* variant: the line after the attribution line is not checked
forward_to_content_lax(h) ==
    IF Len(h) = 0 THEN [status |-> "more", target |-> None]
    ELSE IF ~StartsWith(h[1], <<"FORCHECK">>)
         THEN [status |-> "AssertionError", target |-> None]
    ELSE IF Len(h) = 1 THEN [status |-> "more", target |-> None]
    ELSE IF Strip(h[2]) = <<>> THEN [status |-> "return", target |-> None]
    ELSE IF Len(h) = 2 THEN [status |-> "more", target |-> None]
    ELSE [status |-> "return", target |-> RSplitLast(h[2])]

\* forward_to_content after it has consumed the lines h of a page header:
\* it needs one more line ("more"), returns target, or fails its assertion
forward_to_content(h) ==
    IF Len(h) = 0 THEN [status |-> "more", target |-> None]
    ELSE IF ~StartsWith(h[1], <<"FORCHECK">>)
         THEN [status |-> "AssertionError", target |-> None]
    ELSE IF Len(h) = 1 THEN [status |-> "more", target |-> None]
    ELSE IF Strip(h[2]) = <<>> THEN [status |-> "return", target |-> None]
    ELSE IF Len(h) = 2 THEN [status |-> "more", target |-> None]
    ELSE IF Strip(h[3]) # <<>> THEN [status |-> "AssertionError", target |-> None]
    ELSE [status |-> "return", target |-> RSplitLast(h[2])]

NoCall == [op |-> "none", code |-> <<>>, message |-> <<>>, file |-> <<>>,
           text |-> <<>>, num |-> <<>>]

Disp(kind, stg, target, l, raw) ==
    [kind |-> kind, stage |-> stg, target |-> target, lines |-> l, raw |-> raw]

(***************************************************************************)
(* Lines a listfile is made of in the model                                *)
(***************************************************************************)
Banner == <<"FORCHECK", " ", "V14">>
Attribution == <<"-opts", " ", "foo.f90">>
Blank == <<>>
FormFeed == <<"\f">>
Marker1 == <<" ", "**[", " ", "1", " ", "E", "]", " ", "m">>
Marker2 == <<"**[", "2", " ", "W", "]", " ", "n">>
Culprit == <<" ", "X=1">>
Tally == <<"1", "x[", " ", "2", " ", "W", "]", " ", "n">>

\* lines offered where a page header is read
HeaderLines == { Banner, Attribution, Blank, FormFeed, GlobalSentinel, Culprit }

\* lines offered to the loop over the rest of a page
FileLines ==
    { Blank, FormFeed, GlobalSentinel, <<" ">> \o UnitsSentinel, SummarySentinel,
      Marker1, Marker2, Culprit, Tally }

IgnoreLists == { {}, {1} }

(***************************************************************************)
(* The pass, one line of the listfile per step                             *)
(***************************************************************************)
Init ==
    /\ \E lm \in BOOLEAN, ig \in IgnoreLists : state = ParserState(lm, ig)
    /\ err = "none"
    /\ call = NoCall
    /\ pc = "header"
    /\ stage = 1
    /\ target_file = None
    /\ lines = << <<>>, <<>>, <<>> >>
    /\ hdr = <<>>
    /\ disp = Disp("none", 1, None, << <<>>, <<>>, <<>> >>, <<>>)
    /\ copied = FALSE
    /\ npages = 1
    /\ nread = 0
    /\ ncalls = 0

\* variant: a header without attribution keeps the target file of the page before
HeaderLine_stale ==
    /\ pc = "header"
    /\ nread < MaxLines
    /\ \E L \in HeaderLines :
         LET r == forward_to_content(hdr \o <<L>>)
         IN  /\ hdr' = hdr \o <<L>>
             /\ nread' = nread + 1
             /\ disp' = Disp("header", stage, target_file, lines, L)
             /\ pc' = CASE r.status = "more" -> "header"
                        [] r.status = "return" -> "loop"
                        [] OTHER -> "error"
             /\ err' = IF r.status = "AssertionError" THEN "AssertionError" ELSE err
             /\ target_file' = IF r.status = "return" /\ r.target # None
                               THEN r.target ELSE target_file
             /\ UNCHANGED <<state, call, stage, lines, copied, npages, ncalls>>

\* line = next(file_iterator) inside forward_to_content
HeaderLine ==
    /\ pc = "header"
    /\ nread < MaxLines
    /\ \E L \in HeaderLines :
         LET r == forward_to_content(hdr \o <<L>>)
         IN  /\ hdr' = hdr \o <<L>>
             /\ nread' = nread + 1
             /\ disp' = Disp("header", stage, target_file, lines, L)
             /\ pc' = CASE r.status = "more" -> "header"
                        [] r.status = "return" -> "loop"
                        [] OTHER -> "error"
             /\ err' = IF r.status = "AssertionError" THEN "AssertionError" ELSE err
             /\ target_file' = IF r.status = "return" THEN r.target ELSE target_file
             /\ UNCHANGED <<state, call, stage, lines, copied, npages, ncalls>>

\* next(file_iterator) inside forward_to_content at the end of the file
HeaderEOF ==
    /\ pc = "header"
    /\ pc' = "error"
    /\ err' = "StopIteration"
    /\ disp' = Disp("eof", stage, target_file, lines, <<>>)
    /\ UNCHANGED <<state, call, stage, target_file, lines, hdr, copied, npages,
                   nread, ncalls>>

\* variant: the form-feed line is shifted into the window before the header is read
PageBreak_shift ==
    /\ pc = "loop"
    /\ nread < MaxLines
    /\ \E L \in FileLines :
         /\ StartsWith(L, <<"\f">>)
         /\ pc' = "header"
         /\ hdr' = <<>>
         /\ npages' = npages + 1
         /\ nread' = nread + 1
         /\ lines' = <<Strip(L), lines[1], lines[2]>>
         /\ disp' = Disp("formfeed", stage, target_file, lines, L)
         /\ UNCHANGED <<state, err, call, stage, target_file, copied, ncalls>>

\* for L in f: a line that starts with a form feed
PageBreak ==
    /\ pc = "loop"
    /\ nread < MaxLines
    /\ \E L \in FileLines :
         /\ StartsWith(L, <<"\f">>)
         /\ pc' = "header"
         /\ hdr' = <<>>
         /\ npages' = npages + 1
         /\ nread' = nread + 1
         /\ disp' = Disp("formfeed", stage, target_file, lines, L)
         /\ UNCHANGED <<state, err, call, stage, target_file, lines, copied, ncalls>>

\* variant: a new stage starts with an empty lookback window
Transition_reset ==
    /\ pc = "loop"
    /\ nread < MaxLines
    /\ \E L \in FileLines :
         LET l == <<Strip(L), lines[1], lines[2]>>
         IN  /\ ~StartsWith(L, <<"\f">>)
             /\ l[1] = stages[stage].end_marker
             /\ lines' = << <<>>, <<>>, <<>> >>
             /\ stage' = stage + 1
             /\ nread' = nread + 1
             /\ disp' = Disp("transition", stage, target_file, l, L)
             /\ UNCHANGED <<state, err, call, pc, target_file, hdr, copied, npages,
                            ncalls>>

\* variant: the end marker of any stage ends the active stage
Transition_any ==
    /\ pc = "loop"
    /\ nread < MaxLines
    /\ stage < 4
    /\ \E L \in FileLines :
         LET l == <<Strip(L), lines[1], lines[2]>>
         IN  /\ ~StartsWith(L, <<"\f">>)
             /\ \E k \in 1..3 : l[1] = stages[k].end_marker
             /\ lines' = l
             /\ stage' = stage + 1
             /\ nread' = nread + 1
             /\ disp' = Disp("transition", stage, target_file, l, L)
             /\ UNCHANGED <<state, err, call, pc, target_file, hdr, copied, npages,
                            ncalls>>

\* for L in f: the line is the end marker of the active stage
Transition ==
    /\ pc = "loop"
    /\ nread < MaxLines
    /\ \E L \in FileLines :
         LET l == <<Strip(L), lines[1], lines[2]>>
         IN  /\ ~StartsWith(L, <<"\f">>)
             /\ l[1] = stages[stage].end_marker
             /\ lines' = l
             /\ stage' = stage + 1
             /\ nread' = nread + 1
             /\ disp' = Disp("transition", stage, target_file, l, L)
             /\ UNCHANGED <<state, err, call, pc, target_file, hdr, copied, npages,
                            ncalls>>

\* variant: the end marker is handed to the parser like any other line
Dispatch_all ==
    /\ pc = "loop"
    /\ nread < MaxLines
    /\ \E L \in FileLines :
         LET l == <<Strip(L), lines[1], lines[2]>>
             p == stages[stage].parser
             r == IF p = "None" THEN Ret(state, "none")
                  ELSE slurp(p, state, target_file, l)
         IN  /\ ~StartsWith(L, <<"\f">>)
             /\ lines' = l
             /\ nread' = nread + 1
             /\ state' = r.st
             /\ err' = r.err
             /\ pc' = IF r.err = "none" THEN "loop" ELSE "error"
             /\ disp' = Disp(IF p = "None" THEN "noparser" ELSE "slurp",
                             stage, target_file, l, L)
             /\ UNCHANGED <<call, stage, target_file, hdr, copied, npages, ncalls>>

\* for L in f: any other line, handed to the parser of the stage if it has one
Dispatch ==
    /\ pc = "loop"
    /\ nread < MaxLines
    /\ \E L \in FileLines :
         LET l == <<Strip(L), lines[1], lines[2]>>
             p == stages[stage].parser
             r == IF p = "None" THEN Ret(state, "none")
                  ELSE slurp(p, state, target_file, l)
         IN  /\ ~StartsWith(L, <<"\f">>)
             /\ l[1] # stages[stage].end_marker
             /\ lines' = l
             /\ nread' = nread + 1
             /\ state' = r.st
             /\ err' = r.err
             /\ pc' = IF r.err = "none" THEN "loop" ELSE "error"
             /\ disp' = Disp(IF p = "None" THEN "noparser" ELSE "slurp",
                             stage, target_file, l, L)
             /\ UNCHANGED <<call, stage, target_file, hdr, copied, npages, ncalls>>

\* variant: the listfile is copied after every pass
EndOfFile_always ==
    /\ pc = "loop"
    /\ pc' = "done"
    /\ copied' = TRUE
    /\ disp' = Disp("eof", stage, target_file, lines, <<>>)
    /\ UNCHANGED <<state, err, call, stage, target_file, lines, hdr, npages,
                   nread, ncalls>>

\* variant: the end of the file before the last stage is an error
EndOfFile_strict ==
    /\ pc = "loop"
    /\ pc' = IF stage < 4 THEN "error" ELSE "done"
    /\ err' = IF stage < 4 THEN "ParseError" ELSE err
    /\ copied' = (stage = 4 /\ state.debug_required)
    /\ disp' = Disp("eof", stage, target_file, lines, <<>>)
    /\ UNCHANGED <<state, call, stage, target_file, lines, hdr, npages,
                   nread, ncalls>>

\* the file is exhausted: the loop ends and the listfile is copied if
\* debug_required is set
EndOfFile ==
    /\ pc = "loop"
    /\ pc' = "done"
    /\ copied' = state.debug_required
    /\ disp' = Disp("eof", stage, target_file, lines, <<>>)
    /\ UNCHANGED <<state, err, call, stage, target_file, lines, hdr, npages,
                   nread, ncalls>>

Next ==
    \/ HeaderLine
    \/ HeaderEOF
    \/ PageBreak
    \/ Transition
    \/ Dispatch
    \/ EndOfFile

Spec == Init /\ [][Next]_vars

(***************************************************************************)
(* The ParserState operations called directly, in any order                *)
(***************************************************************************)
Codes == { <<"1", " ", "E">>, <<"0", "1", " ", "W">>, <<"2", " ", "E">> }
Messages == { <<"m">>, <<"n">> }
FileNames == { None, <<"a.f">>, <<"../", "a.f">> }
Counts == { <<"0">>, <<"1">>, <<"0", "2">> }
Totals == { <<"4">>, <<"7">> }

Call(op, code, message, file, text, num) ==
    [op |-> op, code |-> code, message |-> message, file |-> file,
     text |-> text, num |-> num]

StoreFileEvent ==
    /\ err = "none"
    /\ ncalls < MaxCalls
    /\ \E filename \in FileNames, code \in Codes, message \in Messages :
         LET r == store_file_event(state, filename, <<"4", "2">>, code, message, <<"X=1">>)
         IN  /\ state' = r.st
             /\ err' = r.err
             /\ call' = Call("store_file_event", code, message, filename,
                             <<"X=1">>, <<"4", "2">>)
    /\ ncalls' = ncalls + 1
    /\ UNCHANGED parserVars

StoreGlobalEvent ==
    /\ err = "none"
    /\ ncalls < MaxCalls
    /\ \E code \in Codes, message \in Messages :
         LET r == store_global_event(state, code, message, <<"details">>)
         IN  /\ state' = r.st
             /\ err' = r.err
             /\ call' = Call("store_global_event", code, message, None,
                             <<"details">>, <<>>)
    /\ ncalls' = ncalls + 1
    /\ UNCHANGED parserVars

StoreSums ==
    /\ err = "none"
    /\ ncalls < MaxCalls
    /\ \E total \in Totals :
         /\ state' = store_sums(state, <<"files">>, total)
         /\ call' = Call("store_sums", <<>>, <<>>, None, <<"files">>, total)
    /\ ncalls' = ncalls + 1
    /\ UNCHANGED <<err, parserVars>>

ValidateSums ==
    /\ err = "none"
    /\ ncalls < MaxCalls
    /\ \E count \in Counts, code \in Codes :
         /\ state' = validate_sums(state, count, code, <<"m">>)
         /\ call' = Call("validate_sums", code, <<"m">>, None, <<>>, count)
    /\ ncalls' = ncalls + 1
    /\ UNCHANGED <<err, parserVars>>

NextState ==
    \/ StoreFileEvent
    \/ StoreGlobalEvent
    \/ StoreSums
    \/ ValidateSums

SpecState == Init /\ [][NextState]_vars

(***************************************************************************)
(* The pass from the construction of the parser on                         *)
(***************************************************************************)
\* values of the ignore_list parameter: omitted (the default None), or a
\* list of numeric codes
IgnoreArgs == { None, <<>>, <<"1">> }

\* ParserState.__init__: set(int(x) for x in ignore_list) iterates the
\* parameter, which fails on None
ParserState__init__(legacy_mode, ignore_list) ==
    IF ignore_list = None THEN Ret(None, "TypeError")
    ELSE Ret(ParserState(legacy_mode,
                         {DigitVal(ignore_list[i]) : i \in DOMAIN ignore_list}),
             "none")

\* no ForcheckParser has been constructed yet
InitNew ==
    /\ state = None
    /\ err = "none"
    /\ call = NoCall
    /\ pc = "new"
    /\ stage = 1
    /\ target_file = None
    /\ lines = << <<>>, <<>>, <<>> >>
    /\ hdr = <<>>
    /\ disp = Disp("none", 1, None, << <<>>, <<>>, <<>> >>, <<>>)
    /\ copied = FALSE
    /\ npages = 1
    /\ nread = 0
    /\ ncalls = 0

\* ForcheckParser.__init__ up to the call of _parse
ForcheckParser__init__ ==
    /\ pc = "new"
    /\ \E legacy_mode \in BOOLEAN, ignore_list \in IgnoreArgs :
         LET r == ParserState__init__(legacy_mode, ignore_list)
         IN  /\ state' = r.st
             /\ err' = r.err
             /\ pc' = IF r.err = "none" THEN "header" ELSE "error"
             /\ call' = Call("ForcheckParser", <<>>, <<>>, None, <<>>, ignore_list)
    /\ UNCHANGED <<stage, target_file, lines, hdr, disp, copied, npages, nread,
                   ncalls>>

NextNew ==
    \/ ForcheckParser__init__
    \/ Next

SpecNew == InitNew /\ [][NextNew]_vars

(***************************************************************************)
(* The stage parsers on their own: the loop of _parse entered in any stage *)
(* and with any target file, fed lines of every shape the parsers tell     *)
(* apart (no form feed, no sentinel)                                       *)
(***************************************************************************)
MaxFeed == 3

LocFoo == <<"(file: ", "foo.f90", ", line:", " ", " ", "4", "2", ")">>
LocBar == <<" ", "(file: ", "bar.f90", ", line:", " ", "7", ")">>
LocUp == <<"(file: ", "../", "x.f90", ", line:", " ", "7", ")">>
Marker123 ==
    <<"**[", " ", " ", "1", "2", "3", " ", "E", "]", " ", "Undeclared", " ", "variable">>
MarkerParen == <<"**[", "1", "2", "3", " ", "E", "]", " ", "(", "info", ")">>
BadMarker == <<"**[", " ", "oops">>
Tally123 == <<"1", "x[", " ", "1", "2", "3", " ", "E", "]", " ", "Undeclared">>
NumOf4 == <<"number of ", "files", ":", " ", "4">>
NumOf7 == <<" ", "number of ", "files", ":", " ", " ", "7">>
BadNumOf == <<"number of ", "files">>

SlurpLines ==
    { Blank, Culprit, LocFoo, LocBar, LocUp, Marker1, Marker123, MarkerParen, BadMarker,
      Tally123, NumOf4, NumOf7, BadNumOf }

Targets == { None, <<"foo.f90">>, <<"../", "x.f90">> }

\* the header that leaves target t as the target file
HeaderOf(t) ==
    IF t = None THEN <<Banner, Blank>>
    ELSE <<Banner, <<"-opts", " ">> \o t, Blank>>

InitSlurp ==
    /\ \E lm \in BOOLEAN, ig \in IgnoreLists : state = ParserState(lm, ig)
    /\ err = "none"
    /\ call = NoCall
    /\ pc = "loop"
    /\ stage \in 1..4
    /\ target_file \in Targets
    /\ lines = << <<>>, <<>>, <<>> >>
    /\ hdr = HeaderOf(target_file)
    /\ disp = Disp("none", stage, target_file, << <<>>, <<>>, <<>> >>, <<>>)
    /\ copied = FALSE
    /\ npages = 1
    /\ nread = 0
    /\ ncalls = 0

\* for L in f: the line is shifted into the window and handed to the parser
\* of the stage
Feed ==
    /\ pc = "loop"
    /\ nread < MaxFeed
    /\ \E L \in SlurpLines :
         LET l == <<Strip(L), lines[1], lines[2]>>
             p == stages[stage].parser
             r == IF p = "None" THEN Ret(state, "none")
                  ELSE slurp(p, state, target_file, l)
         IN  /\ ~StartsWith(L, <<"\f">>)
             /\ l[1] # stages[stage].end_marker
             /\ lines' = l
             /\ nread' = nread + 1
             /\ state' = r.st
             /\ err' = r.err
             /\ pc' = IF r.err = "none" THEN "loop" ELSE "error"
             /\ disp' = Disp(IF p = "None" THEN "noparser" ELSE "slurp",
                             stage, target_file, l, L)
             /\ UNCHANGED <<call, stage, target_file, hdr, copied, npages, ncalls>>

NextSlurp ==
    \/ Feed
    \/ EndOfFile

SpecSlurp == InitSlurp /\ [][NextSlurp]_vars

(***************************************************************************)
(* The run after the pass: launcher.do_action and filegen.ResultWriter     *)
(***************************************************************************)
\* what Forcheck.get_run_data returns; its content plays no role
RunData == <<"forcheck", " ", "-opts">>

\* obj.name = v
SetAttr(obj, name, v) ==
    [x \in (DOMAIN obj) \cup {name} |-> IF x = name THEN v ELSE obj[x]]

\* the defaultdict after d[k] was read for every k in ks
TouchAll(d, ks, dflt) ==
    [x \in (DOMAIN d) \cup ks |-> IF x \in DOMAIN d THEN d[x] ELSE dflt]

\* do_action: state.run_data = f.get_run_data()
do_action_run_data ==
    /\ pc = "done"
    /\ pc' = "attached"
    /\ state' = SetAttr(state, "run_data", RunData)
    /\ disp' = Disp("run_data", stage, target_file, lines, <<>>)
    /\ UNCHANGED <<err, call, stage, target_file, lines, hdr, copied, npages,
                   nread, ncalls>>

\* ResultWriter.__init__: the Event cache reads event_message[code] for
\* every code of event_counter
ResultWriter__init__ ==
    /\ pc = "attached"
    /\ pc' = "writer"
    /\ state' = [state EXCEPT
                   !.event_message = TouchAll(@, DOMAIN state.event_counter, <<>>)]
    /\ disp' = Disp("writer", stage, target_file, lines, <<>>)
    /\ UNCHANGED <<err, call, stage, target_file, lines, hdr, copied, npages,
                   nread, ncalls>>

\* ResultWriter._gen_assets: does not use the ParserState
_gen_assets ==
    /\ pc = "writer"
    /\ pc' = "assets"
    /\ disp' = Disp("assets", stage, target_file, lines, <<>>)
    /\ UNCHANGED <<state, err, call, stage, target_file, lines, hdr, copied,
                   npages, nread, ncalls>>

\* ResultWriter._gen_event_pages: reads event_instances[e.code] for every
\* cached Event
_gen_event_pages ==
    /\ pc = "assets"
    /\ pc' = "event_pages"
    /\ state' = [state EXCEPT
                   !.event_instances = TouchAll(@, DOMAIN state.event_counter, <<>>)]
    /\ disp' = Disp("event_pages", stage, target_file, lines, <<>>)
    /\ UNCHANGED <<err, call, stage, target_file, lines, hdr, copied, npages,
                   nread, ncalls>>

\* ResultWriter._gen_source_pages with _format_source: reads
\* file_events[filename] for every key of file_events and event_message[e.code]
\* for every instance found there
_gen_source_pages ==
    /\ pc = "event_pages"
    /\ pc' = "source_pages"
    /\ state' = [state EXCEPT
                   !.file_events = TouchAll(@, DOMAIN state.file_events, <<>>),
                   !.event_message =
                       TouchAll(@, {c \in DOMAIN state.event_instances :
                                      \E f \in DOMAIN state.file_events :
                                        \E i \in DOMAIN state.file_events[f] :
                                          state.file_events[f][i].code = c}, <<>>)]
    /\ disp' = Disp("source_pages", stage, target_file, lines, <<>>)
    /\ UNCHANGED <<err, call, stage, target_file, lines, hdr, copied, npages,
                   nread, ncalls>>

\* ResultWriter._gen_index: renders the cached Events
_gen_index ==
    /\ pc = "source_pages"
    /\ pc' = "end"
    /\ disp' = Disp("index", stage, target_file, lines, <<>>)
    /\ UNCHANGED <<state, err, call, stage, target_file, lines, hdr, copied,
                   npages, nread, ncalls>>

NextRun ==
    \/ Feed
    \/ EndOfFile
    \/ do_action_run_data
    \/ ResultWriter__init__
    \/ _gen_assets
    \/ _gen_event_pages
    \/ _gen_source_pages
    \/ _gen_index

SpecRun == InitSlurp /\ [][NextRun]_vars

(***************************************************************************)
(* Properties of the ParserState operations (SpecState)                    *)
(***************************************************************************)
\* the integer a code's numeric part stands for
NumericPart(code) == IntOf(TakeWhile(code, Digits))

IgnoredCode(code) == NumericPart(code) \in state.ignore_list

\* every code that is a key of an aggregate or was an argument of a call
KnownCodes ==
    Codes \cup DOMAIN state.event_counter \cup DOMAIN state.event_instances
          \cup DOMAIN state.event_message

StoreOps == {"store_file_event", "store_global_event"}

\* C1: for every code that is not ignored the stored count equals the
\* number of instances in the code-indexed list of that code, after any
\* sequence of store_file_event, store_global_event, store_sums and
\* validate_sums calls.
C1_CountEqualsInstances ==
    \A c \in KnownCodes :
        ~IgnoredCode(c) =>
            Get(state.event_counter, c, 0) = Len(Get(state.event_instances, c, <<>>))

\* a code recorded twice, then a tally of it checked
C1_Witness ==
    /\ call.op = "validate_sums"
    /\ ~IgnoredCode(call.code)
    /\ Get(state.event_counter, call.code, 0) = 2
    /\ Len(Get(state.event_instances, call.code, <<>>)) = 2

\* C2: a code whose numeric part is in the ignore-set, whatever its severity
\* letter, has no instance in a code-indexed or file-indexed list and no
\* count or message entry.
C2_IgnoredNeverStored ==
    /\ \A c \in KnownCodes :
          IgnoredCode(c) =>
             /\ c \notin DOMAIN state.event_instances
             /\ c \notin DOMAIN state.event_counter
             /\ c \notin DOMAIN state.event_message
    /\ \A f \in DOMAIN state.file_events :
          \A i \in 1..Len(state.file_events[f]) :
             ~IgnoredCode(state.file_events[f][i].code)

\* an ignored code written with a leading zero and another severity letter
\* was offered as a file event after something else had been stored
C2_Witness ==
    /\ call.op = "store_file_event"
    /\ call.code = <<"0", "1", " ", "W">>
    /\ IgnoredCode(call.code)
    /\ call.file = <<"a.f">>
    /\ DOMAIN state.file_events = {<<"a.f">>}
    /\ ncalls = 3

\* C3: once a message is stored for a code, recording a later event of that
\* code keeps the stored message; a different message sets debug_required,
\* the same message leaves debug_required as it was.
C3_FirstMessageWins ==
    [][(/\ call'.op \in StoreOps
        /\ ncalls' = ncalls + 1
        /\ err' = "none"
        /\ call'.code \in DOMAIN state.event_message)
       => /\ call'.code \in DOMAIN state'.event_message
          /\ state'.event_message[call'.code] = state.event_message[call'.code]
          /\ (call'.message # state.event_message[call'.code]
                => state'.debug_required)
          /\ (call'.message = state.event_message[call'.code]
                => state'.debug_required = state.debug_required)]_vars

\* a second message for a code was recorded: the first one is still stored
C3_Witness ==
    /\ call.op \in StoreOps
    /\ err = "none"
    /\ call.code \in DOMAIN state.event_message
    /\ state.event_message[call.code] # call.message
    /\ state.event_counter[call.code] = 2
    /\ state.debug_required

\* C4: a tally that differs from the locally aggregated count of a code that
\* is not ignored sets debug_required and leaves the count at the local value.
C4_TallyNeverOverwrites ==
    [][(/\ call'.op = "validate_sums"
        /\ ncalls' = ncalls + 1
        /\ ~IgnoredCode(call'.code)
        /\ IntOf(call'.num) # Get(state.event_counter, call'.code, 0))
       => /\ state'.debug_required
          /\ Get(state'.event_counter, call'.code, 0)
               = Get(state.event_counter, call'.code, 0)
          /\ state'.event_instances = state.event_instances]_vars

\* tally 2 against a local count of 1
C4_Witness ==
    /\ call.op = "validate_sums"
    /\ ~IgnoredCode(call.code)
    /\ IntOf(call.num) = 2
    /\ Get(state.event_counter, call.code, 0) = 1
    /\ state.debug_required

(***************************************************************************)
(* Properties of the pass (Spec)                                           *)
(***************************************************************************)
\* the sentinel that ends stage k; the summary stage has none
SentinelOf(k) ==
    CASE k = 1 -> GlobalSentinel
      [] k = 2 -> UnitsSentinel
      [] k = 3 -> SummarySentinel
      [] OTHER -> None

\* kinds of step in which a line becomes the current line of the window
BodyKinds == {"transition", "slurp", "noparser"}

\* the target file a complete page header h stands for
PageTarget(h) == IF Strip(h[2]) = <<>> THEN None ELSE RSplitLast(h[2])

\* C5: the active stage only moves forward, one stage at a time, and it moves
\* exactly when the current line equals the sentinel of the active stage; no
\* other line, and no line at all in the summary stage, moves it.
C5_StageOrder ==
    [][/\ stage' \in {stage, stage + 1}
       /\ stage' \in 1..4
       /\ (disp'.kind \in BodyKinds /\ nread' = nread + 1)
            => ((stage' = stage + 1) <=> Strip(disp'.raw) = SentinelOf(stage))
       /\ (disp'.kind \notin BodyKinds) => stage' = stage]_vars

\* the sentinel of the first stage was read in the summary stage
C5_Witness ==
    /\ stage = 4
    /\ disp.stage = 4
    /\ disp.kind = "slurp"
    /\ disp.lines[1] = GlobalSentinel
    /\ disp.lines[2] = SummarySentinel

\* C6: a line that triggers a stage transition is handed neither to the parser
\* of the stage it ends nor to the parser of the stage it starts.
C6_SentinelNotForwarded ==
    [][/\ (disp'.kind = "slurp" /\ nread' = nread + 1)
            => disp'.lines[1] # SentinelOf(disp'.stage)
       /\ (stage' # stage)
            => /\ disp'.kind = "transition"
               /\ state' = state
               /\ err' = err
               /\ pc' = pc]_vars

\* the file-event stage ended on a page that has a target file, where the
\* global-event parser would have failed on any line
C6_Witness ==
    /\ disp.kind = "transition"
    /\ disp.stage = 1
    /\ stage = 2
    /\ target_file # None
    /\ DOMAIN state.event_counter # {}
    /\ pc = "loop"
    /\ err = "none"

\* C7 as stated: input exhausted before the summary stage makes the parse fail.
C7_Original ==
    (disp.kind = "eof" /\ stage < 4) => (pc = "error" /\ err # "none")

\* C7, amended: input exhausted in the line loop before the summary stage
\* ends the pass without error and leaves the ParserState as aggregated so
\* far; only input that ends inside a page header makes the parse fail.
C7_ExhaustedInputReturns ==
    [][(disp'.kind = "eof" /\ stage < 4 /\ pc # pc')
       => IF pc = "loop"
          THEN pc' = "done" /\ err' = "none" /\ state' = state
          ELSE pc = "header" /\ pc' = "error" /\ err' = "StopIteration"]_vars

\* the input ended in the global-event stage after an event was recorded
C7_Witness ==
    /\ pc = "done"
    /\ err = "none"
    /\ disp.kind = "eof"
    /\ stage = 2
    /\ DOMAIN state.event_counter # {}

\* C8: on the first page and on every page after a form-feed line, a first
\* line that does not start with the banner, a non-blank attribution line not
\* followed by a blank line, or the end of the input inside the header abort
\* the parse with an error; an aborted parse never completes.
C8_HeaderErrors ==
    [][/\ (disp'.kind = "header" /\ nread' = nread + 1)
            => (((Len(hdr') = 1 /\ ~StartsWith(hdr'[1], <<"FORCHECK">>))
                 \/ (Len(hdr') = 3 /\ Strip(hdr'[2]) # <<>> /\ Strip(hdr'[3]) # <<>>))
                => (pc' = "error" /\ err' = "AssertionError"))
       /\ (pc = "header" /\ disp'.kind = "eof" /\ pc' # pc)
            => (pc' = "error" /\ err' = "StopIteration")
       /\ (pc = "error" => pc' = "error")
       /\ (pc' = "done" => err' = "none")]_vars

\* the second page has an attribution line that no blank line follows
C8_Witness ==
    /\ npages = 2
    /\ Len(hdr) = 3
    /\ Strip(hdr[3]) # <<>>
    /\ pc = "error"
    /\ err = "AssertionError"

\* C9: a form-feed line and the header lines after it are neither dispatched
\* nor compared with a sentinel nor shifted into the window, and every line
\* dispatched later on that page is dispatched with the page's target file.
C9_PageBreak ==
    [][/\ (disp'.kind \in {"formfeed", "header"} /\ nread' = nread + 1)
            => /\ state' = state
               /\ stage' = stage
               /\ lines' = lines
       /\ (pc = "loop" /\ nread' = nread + 1 /\ StartsWith(disp'.raw, <<"\f">>))
            => (disp'.kind = "formfeed" /\ pc' = "header")
       /\ (disp'.kind = "slurp" /\ nread' = nread + 1)
            => disp'.target = PageTarget(hdr')]_vars

\* a line dispatched on a second page whose header names foo.f90, after a
\* first page without target file
C9_Witness ==
    /\ npages = 2
    /\ nread = 7
    /\ disp.kind = "slurp"
    /\ disp.target = <<"foo.f90">>
    /\ Len(hdr) = 3

\* C10: the target file is a function of the text of the page header alone,
\* in every stage and whatever the target file was before; a header without
\* attribution line resets it to None.
C10_HeaderMemoryless ==
    pc \in {"loop", "done"} => target_file = PageTarget(hdr)

\* in the global-event stage a header without attribution followed a page
\* that had a target file
C10_Witness ==
    /\ pc = "loop"
    /\ stage = 2
    /\ npages = 2
    /\ disp.kind = "header"
    /\ disp.target # None
    /\ target_file = None

(***************************************************************************)
(* Properties of the stage parsers (SpecSlurp)                             *)
(***************************************************************************)
\* the step hands a line to the parser of stage k
FedTo(k) == disp'.kind = "slurp" /\ disp'.stage = k /\ nread' = nread + 1

\* the line carries a (file: <path>, line: <n>) tag
HasTag(l) == re_file(l).ok

\* of the two lines before a marker, the one in the location role and the other
LocationLine(legacy, l1, l2) == IF legacy THEN l1 ELSE l2
OtherLine(legacy, l1, l2) == IF legacy THEN l2 ELSE l1

\* the location a file event is to get from the two lines before its marker
ExpectedFile(legacy, target, l1, l2) ==
    IF HasTag(LocationLine(legacy, l1, l2)) THEN re_file(LocationLine(legacy, l1, l2)).g1
    ELSE IF HasTag(OtherLine(legacy, l1, l2)) THEN re_file(OtherLine(legacy, l1, l2)).g1
    ELSE target

ExpectedLine(legacy, l1, l2) ==
    IF HasTag(LocationLine(legacy, l1, l2))
    THEN IntOf(re_file(LocationLine(legacy, l1, l2)).g2)
    ELSE IF HasTag(OtherLine(legacy, l1, l2))
         THEN IntOf(re_file(OtherLine(legacy, l1, l2)).g2)
         ELSE 0

\* a path that EventInstance accepts (section 3: no parent-directory segment)
SafePath(f) == f = None \/ ~HasParentSegment(f)

\* the last instance in the code-indexed list of code c in ParserState st
LastOf(st, c) == st.event_instances[c][Len(st.event_instances[c])]

\* the step appended exactly one instance to the code-indexed list of c
AppendedOne(c) ==
    /\ c \in DOMAIN state'.event_instances
    /\ state'.event_instances[c]
         = Get(state.event_instances, c, <<>>) \o <<LastOf(state', c)>>

\* the step is a file event of a code that is not ignored, with a safe path
FileEventStep ==
    /\ FedTo(1)
    /\ re_err(disp'.lines[1]).ok
    /\ ~IgnoredCode(re_err(disp'.lines[1]).g1)
    /\ SafePath(ExpectedFile(state.legacy_mode, disp'.target,
                             disp'.lines[2], disp'.lines[3]))

\* C11: the location of a file event comes from the line in the location role
\* if it carries a tag; otherwise from the other line if that one carries a
\* tag, and then the culprit is empty; otherwise it is (target file, 0), and
\* the event is recorded without error.
C11_LocationOrder ==
    [][FileEventStep =>
         LET c == re_err(disp'.lines[1]).g1
             l1 == disp'.lines[2]
             l2 == disp'.lines[3]
             lm == state.legacy_mode
         IN  /\ err' = "none"
             /\ AppendedOne(c)
             /\ LastOf(state', c).filename = ExpectedFile(lm, disp'.target, l1, l2)
             /\ LastOf(state', c).linenum = ExpectedLine(lm, l1, l2)
             /\ (~HasTag(LocationLine(lm, l1, l2)) /\ HasTag(OtherLine(lm, l1, l2)))
                  => LastOf(state', c).culprit = <<>>]_vars

\* a marker with no tag on either line before it, on a page of foo.f90
C11_Witness ==
    /\ disp.kind = "slurp"
    /\ disp.stage = 1
    /\ err = "none"
    /\ disp.target = <<"foo.f90">>
    /\ disp.lines = <<Strip(Marker123), Strip(Culprit), Strip(NumOf4)>>
    /\ LastOf(state, <<"1", "2", "3", " ", "E">>)
         = [code |-> <<"1", "2", "3", " ", "E">>, culprit |-> Strip(Culprit),
            filename |-> <<"foo.f90">>, linenum |-> 0]

Code123 == <<"1", "2", "3", " ", "E">>

\* the instance of the scenario of section 4: file foo.f90, line 42, and the
\* stripped culprit line
Instance42 ==
    [code |-> Code123, culprit |-> <<"X=1">>,
     filename |-> <<"foo.f90">>, linenum |-> 42]

\* C12: on a page of foo.f90 the marker "**[  123 E] Undeclared variable",
\* with the tag (file: foo.f90, line:  42) two lines before and the culprit
\* line directly before it, yields exactly one instance of 123 E for
\* foo.f90, line 42, with the stripped culprit line; in legacy mode the two
\* lines in the opposite order yield the same instance.
C12_Scenario ==
    [][(/\ FedTo(1)
        /\ disp'.target = <<"foo.f90">>
        /\ disp'.raw = Marker123
        /\ ~IgnoredCode(Code123)
        /\ lines[1] = Strip(IF state.legacy_mode THEN LocFoo ELSE Culprit)
        /\ lines[2] = Strip(IF state.legacy_mode THEN Culprit ELSE LocFoo))
       => /\ err' = "none"
          /\ state'.event_instances[Code123]
               = Get(state.event_instances, Code123, <<>>) \o <<Instance42>>
          /\ state'.file_events[<<"foo.f90">>]
               = Get(state.file_events, <<"foo.f90">>, <<>>) \o <<Instance42>>
          /\ state'.event_counter[Code123]
               = Get(state.event_counter, Code123, 0) + 1]_vars

\* the legacy order of the scenario, decoded
C12_Witness ==
    /\ state.legacy_mode
    /\ disp.kind = "slurp"
    /\ disp.stage = 1
    /\ disp.target = <<"foo.f90">>
    /\ disp.lines = <<Strip(Marker123), Strip(LocFoo), Strip(Culprit)>>
    /\ state.event_instances = (Code123 :> <<Instance42>>)
    /\ state.file_events = (<<"foo.f90">> :> <<Instance42>>)

\* C13: a file event whose message starts with "(" is recorded with an empty
\* culprit, and its file and line are resolved as for any other file event.
C13_ParenMessage ==
    [][(FileEventStep /\ StartsWith(re_err(disp'.lines[1]).g2, <<"(">>)) =>
         LET c == re_err(disp'.lines[1]).g1
             l1 == disp'.lines[2]
             l2 == disp'.lines[3]
             lm == state.legacy_mode
         IN  /\ err' = "none"
             /\ AppendedOne(c)
             /\ LastOf(state', c).culprit = <<>>
             /\ LastOf(state', c).filename = ExpectedFile(lm, disp'.target, l1, l2)
             /\ LastOf(state', c).linenum = ExpectedLine(lm, l1, l2)]_vars

\* "**[123 E] (info)" behind a culprit line and a tag
C13_Witness ==
    /\ ~state.legacy_mode
    /\ disp.kind = "slurp"
    /\ disp.stage = 1
    /\ err = "none"
    /\ disp.lines = <<Strip(MarkerParen), Strip(Culprit), Strip(LocFoo)>>
    /\ LastOf(state, Code123)
         = [code |-> Code123, culprit |-> <<>>,
            filename |-> <<"foo.f90">>, linenum |-> 42]

\* C14: in the file and the global stage a line that starts with "**[" but
\* does not match the marker pattern aborts the parse, a ParseError where the
\* marker is looked at, and the stores are left as they were.
C14_BadMarkerAborts ==
    [][(/\ (FedTo(1) \/ FedTo(2))
        /\ StartsWith(disp'.lines[1], <<"**[">>)
        /\ ~re_err(disp'.lines[1]).ok)
       => /\ pc' = "error"
          /\ err' \in {"ParseError", "AssertionError"}
          /\ (disp'.stage = 1 \/ disp'.target = None) => err' = "ParseError"
          /\ state' = state]_vars

\* "**[ oops" among the global messages, after an event was recorded
C14_Witness ==
    /\ disp.kind = "slurp"
    /\ disp.stage = 2
    /\ disp.target = None
    /\ disp.lines[1] = BadMarker
    /\ pc = "error"
    /\ err = "ParseError"
    /\ DOMAIN state.event_counter # {}

\* C15: in the global stage every line met while a target file is in context
\* aborts the parse with an AssertionError and stores nothing; the stage
\* stores events only while no target file is in context.
C15_GlobalNeedsNoTarget ==
    [][FedTo(2) =>
         /\ disp'.target # None
              => (pc' = "error" /\ err' = "AssertionError" /\ state' = state)
         /\ state' # state => disp'.target = None]_vars

\* a line that is no marker aborts the global stage on a page of foo.f90
C15_Witness ==
    /\ disp.kind = "slurp"
    /\ disp.stage = 2
    /\ disp.target = <<"foo.f90">>
    /\ ~StartsWith(disp.lines[1], <<"**[">>)
    /\ disp.lines[1] # <<>>
    /\ pc = "error"
    /\ err = "AssertionError"

\* the step is a global event of a code that is not ignored
GlobalEventStep ==
    /\ FedTo(2)
    /\ disp'.target = None
    /\ re_err(disp'.lines[1]).ok
    /\ ~IgnoredCode(re_err(disp'.lines[1]).g1)

\* C16: a global event is recorded without file and line; its details are
\* the line before the marker, or empty when that line is itself a marker
\* line; the line two before the marker has no influence; the file-indexed
\* lists are untouched.
C16_GlobalDetails ==
    [][GlobalEventStep =>
         LET c == re_err(disp'.lines[1]).g1
             l1 == disp'.lines[2]
         IN  /\ err' = "none"
             /\ AppendedOne(c)
             /\ LastOf(state', c)
                  = [code |-> c,
                     culprit |-> IF StartsWith(l1, <<"**[">>) THEN <<>> ELSE l1,
                     filename |-> None, linenum |-> NoLine]
             /\ state'.file_events = state.file_events]_vars

\* a global marker behind two markers: the details are empty, not the marker
\* two lines back
C16_Witness ==
    /\ disp.kind = "slurp"
    /\ disp.stage = 2
    /\ err = "none"
    /\ disp.lines = <<Strip(Marker1), Strip(Marker123), Strip(MarkerParen)>>
    /\ LastOf(state, <<"1", " ", "E">>)
         = [code |-> <<"1", " ", "E">>, culprit |-> <<>>,
            filename |-> None, linenum |-> NoLine]

\* two global markers directly after each other have both been recorded
TwoAdjacentGlobal ==
    /\ disp.kind = "slurp"
    /\ disp.stage = 2
    /\ err = "none"
    /\ nread >= 2
    /\ re_err(disp.lines[1]).ok
    /\ re_err(disp.lines[2]).ok
    /\ ~IgnoredCode(re_err(disp.lines[1]).g1)
    /\ ~IgnoredCode(re_err(disp.lines[2]).g1)

\* the instances recorded for the second and for the first of the two markers
SecondOfTwo == LastOf(state, re_err(disp.lines[1]).g1)

FirstOfTwo ==
    LET c0 == re_err(disp.lines[1]).g1
        c1 == re_err(disp.lines[2]).g1
        L == state.event_instances[c1]
    IN  IF c0 = c1 THEN L[Len(L) - 1] ELSE L[Len(L)]

\* C17 as stated: of two global markers directly after each other, the first
\* event is recorded with empty details.
C17_Original == TwoAdjacentGlobal => FirstOfTwo.culprit = <<>>

\* C17: of two global markers directly after each other, the second event is
\* recorded with empty details; the details of the first are the line before
\* it, empty only if that line is empty or a marker line.
C17_SecondEmpty ==
    TwoAdjacentGlobal =>
      /\ SecondOfTwo.culprit = <<>>
      /\ FirstOfTwo.culprit
           = IF StartsWith(disp.lines[3], <<"**[">>) THEN <<>> ELSE disp.lines[3]

\* a details line, then two markers: the first keeps the line, the second
\* has none
C17_Witness ==
    /\ TwoAdjacentGlobal
    /\ disp.lines = <<Strip(MarkerParen), Strip(Marker123), Strip(Culprit)>>
    /\ FirstOfTwo.culprit = Strip(Culprit)
    /\ SecondOfTwo.culprit = <<>>
    /\ Len(state.event_instances[Code123]) = 2

\* C18: a file event of a code that is not ignored appends one instance to
\* the list of its code and the same instance to the list of its file, also
\* when the file is the current target file by default, and adds one to the
\* count of the code.
C18_BothIndexes ==
    [][FileEventStep =>
         LET c == re_err(disp'.lines[1]).g1
             f == ExpectedFile(state.legacy_mode, disp'.target,
                               disp'.lines[2], disp'.lines[3])
         IN  /\ err' = "none"
             /\ AppendedOne(c)
             /\ LastOf(state', c).filename = f
             /\ state'.event_counter[c] = Get(state.event_counter, c, 0) + 1
             /\ f # None =>
                  /\ f \in DOMAIN state'.file_events
                  /\ state'.file_events[f]
                       = Get(state.file_events, f, <<>>) \o <<LastOf(state', c)>>
             /\ \A g \in DOMAIN state'.file_events \ {f} :
                  /\ g \in DOMAIN state.file_events
                  /\ state'.file_events[g] = state.file_events[g]]_vars

\* a second event for foo.f90, located by default at line 0 of the target
C18_Witness ==
    /\ disp.kind = "slurp"
    /\ disp.stage = 1
    /\ err = "none"
    /\ disp.target = <<"foo.f90">>
    /\ disp.lines[1] = Strip(Marker1)
    /\ ~HasTag(disp.lines[2])
    /\ ~HasTag(disp.lines[3])
    /\ <<"foo.f90">> \in DOMAIN state.file_events
    /\ <<"1", " ", "E">> \in DOMAIN state.event_instances
    /\ Len(state.file_events[<<"foo.f90">>]) = 2
    /\ state.file_events[<<"foo.f90">>][2] = LastOf(state, <<"1", " ", "E">>)
    /\ state.file_events[<<"foo.f90">>][2].linenum = 0

\* C19 as stated: a tally line changes no count, message or instance list
\* and leaves every map with the keys it had.
C19_TallyKeepsKeys ==
    [][(FedTo(4) /\ disp'.target = None /\ re_summary(disp'.lines[1]).ok)
       => /\ state'.event_counter = state.event_counter
          /\ state'.event_message = state.event_message
          /\ state'.event_instances = state.event_instances
          /\ state'.file_events = state.file_events
          /\ state'.sums = state.sums]_vars

\* C20: in the summary stage a line "number of <label>: <count>" stores the
\* count, as text, under the label, in place of any count stored for the
\* label before, and changes nothing else.
C20_NumOfStored ==
    [][(/\ FedTo(4)
        /\ disp'.target = None
        /\ ~re_summary(disp'.lines[1]).ok
        /\ StartsWith(disp'.lines[1], <<"number of ">>)
        /\ re_numof(disp'.lines[1]).ok)
       => LET n == re_numof(disp'.lines[1])
          IN  /\ err' = "none"
              /\ state'.sums[n.g1] = n.g2
              /\ state' = [state EXCEPT !.sums = Put(@, n.g1, n.g2)]]_vars

\* "number of files: 7" after "number of files: 4"
C20_Witness ==
    /\ disp.kind = "slurp"
    /\ disp.stage = 4
    /\ err = "none"
    /\ disp.lines[1] = Strip(NumOf7)
    /\ disp.lines[2] = Strip(NumOf4)
    /\ state.sums = (re_numof(Strip(NumOf7)).g1 :> <<"7">>)

(***************************************************************************)
(* Properties of the pass as a whole                                       *)
(***************************************************************************)
\* C21: the listfile is copied at the end of a pass if and only if
\* debug_required is set then, and never before the end; debug_required,
\* once set, stays set; the step that sets it does not end the pass; and
\* what a line does to the stores does not depend on debug_required.
C21_AnomalyCopy ==
    [][/\ (pc' = "done" /\ pc # "done") => (copied' <=> state'.debug_required)
       /\ pc' # "done" => ~copied'
       /\ state.debug_required => state'.debug_required
       /\ (~state.debug_required /\ state'.debug_required)
            => (err' = "none" /\ pc' = "loop")
       /\ (disp'.kind = "slurp" /\ nread' = nread + 1) =>
            LET r == slurp(stages[disp'.stage].parser,
                           [state EXCEPT !.debug_required = ~@],
                           disp'.target, disp'.lines)
            IN  /\ r.err = err'
                /\ [r.st EXCEPT !.debug_required = FALSE]
                     = [state' EXCEPT !.debug_required = FALSE]]_vars

\* two messages for 123 E set the flag, a later event is still recorded, and
\* the listfile is copied at the end
C21_Witness ==
    /\ pc = "done"
    /\ err = "none"
    /\ copied
    /\ state.debug_required
    /\ lines = <<Strip(Marker1), Strip(MarkerParen), Strip(Marker123)>>
    /\ <<"1", " ", "E">> \in DOMAIN state.event_counter
    /\ state.event_counter[Code123] = 2

\* C22 as stated: a parser constructed without ignore-set performs the pass
\* with no code ignored.
C22_OmittedIgnoreSet ==
    [][(pc = "new" /\ call'.op = "ForcheckParser" /\ call'.num = None)
       => /\ err' = "none"
          /\ pc' = "header"
          /\ state'.ignore_list = {}]_vars

\* the attributes ParserState.__init__ gives a ParserState
StateAttributes ==
    {"legacy_mode", "sums", "event_message", "event_counter", "event_instances",
     "file_events", "ignore_list", "debug_required"}

\* C23 as stated: once the pass has completed, attaching the run data and
\* rendering leave every attribute of the ParserState, and so the keys and
\* values of all its maps, as the pass left them.
C23_FrozenAfterPass ==
    [][(pc \in {"done", "attached", "writer", "assets", "event_pages",
               "source_pages"})
       => \A a \in StateAttributes : state'[a] = state[a]]_vars

\* every instance in the two indexes has a path without "../"
NoParentPaths ==
    /\ \A c \in DOMAIN state.event_instances :
         \A i \in DOMAIN state.event_instances[c] :
           SafePath(state.event_instances[c][i].filename)
    /\ \A f \in DOMAIN state.file_events :
         /\ SafePath(f)
         /\ \A i \in DOMAIN state.file_events[f] :
              SafePath(state.file_events[f][i].filename)

\* C24: no stored instance has a file path with a "../" segment, and a file
\* event of a code that is not ignored whose resolved path has one aborts
\* the parse with nothing stored for it.
C24_NoParentSegment ==
    /\ []NoParentPaths
    /\ [][(/\ FedTo(1)
           /\ re_err(disp'.lines[1]).ok
           /\ ~IgnoredCode(re_err(disp'.lines[1]).g1)
           /\ ~SafePath(ExpectedFile(state.legacy_mode, disp'.target,
                                     disp'.lines[2], disp'.lines[3])))
          => /\ pc' = "error"
             /\ err' = "AssertionError"
             /\ state' = state]_vars

\* on a page of foo.f90 a marker whose tag names ../x.f90 ended the parse,
\* after an event of foo.f90 had been stored
C24_Witness ==
    /\ pc = "error"
    /\ err = "AssertionError"
    /\ disp.stage = 1
    /\ disp.target = <<"foo.f90">>
    /\ ~state.legacy_mode
    /\ disp.lines = <<Strip(Marker123), Strip(LocUp), Strip(Marker1)>>
    /\ DOMAIN state.file_events = {<<"foo.f90">>}
    /\ DOMAIN state.event_instances = {<<"1", " ", "E">>}

\* C25: in the program units stage a line that is not the sentinel of the
\* stage changes neither the ParserState nor the stage and raises no error,
\* whatever it looks like and whether or not the page has a target file.
C25_UnitsStageInert ==
    [][(/\ disp'.stage = 3
        /\ disp'.kind \in {"slurp", "noparser"}
        /\ nread' = nread + 1)
       => /\ state' = state
          /\ err' = "none"
          /\ pc' = "loop"
          /\ stage' = 3]_vars

\* a marker, a total and a tally were read in the program units stage on a
\* page of foo.f90
C25_Witness ==
    /\ stage = 3
    /\ pc = "loop"
    /\ err = "none"
    /\ target_file = <<"foo.f90">>
    /\ disp.kind = "noparser"
    /\ disp.lines = <<Strip(Tally123), Strip(NumOf4), Strip(Marker123)>>
    /\ state = ParserState(state.legacy_mode, state.ignore_list)

\* every instance in the list of file f has path f and is in the list of
\* its code
FileIndexConsistent ==
    \A f \in DOMAIN state.file_events :
      \A i \in DOMAIN state.file_events[f] :
        LET inst == state.file_events[f][i]
        IN  /\ inst.filename = f
            /\ inst.code \in DOMAIN state.event_instances
            /\ \E j \in DOMAIN state.event_instances[inst.code] :
                 state.event_instances[inst.code][j] = inst

\* C26: each instance in the file-indexed list of a file has that file as
\* its path and is also in the code-indexed list of its code; recording a
\* global event leaves the file-indexed lists as they are.
C26_FileIndex ==
    /\ []FileIndexConsistent
    /\ [][(call'.op = "store_global_event" /\ ncalls' = ncalls + 1)
          => state'.file_events = state.file_events]_vars

\* a global event recorded after a file event of the same code
C26_Witness ==
    /\ call.op = "store_global_event"
    /\ err = "none"
    /\ call.code \in DOMAIN state.event_instances
    /\ Len(state.event_instances[call.code]) = 2
    /\ state.event_instances[call.code][2].filename = None
    /\ DOMAIN state.file_events = {<<"a.f">>}
    /\ state.file_events[<<"a.f">>] = <<state.event_instances[call.code][1]>>

\* list a is the beginning of list b, and b has at most one element more
GrownFrom(a, b) ==
    /\ Len(a) <= Len(b)
    /\ Len(b) <= Len(a) + 1
    /\ SubSeq(b, 1, Len(a)) = a

\* C27: every step leaves the instances already in a code-indexed or
\* file-indexed list where they are and adds at most one at the end of a
\* list, so a list is in the order of the dispatched marker lines; no list
\* disappears and no count decreases.
C27_AppendOnly ==
    [][/\ \A c \in DOMAIN state.event_instances :
            /\ c \in DOMAIN state'.event_instances
            /\ GrownFrom(state.event_instances[c], state'.event_instances[c])
       /\ \A f \in DOMAIN state.file_events :
            /\ f \in DOMAIN state'.file_events
            /\ GrownFrom(state.file_events[f], state'.file_events[f])
       /\ \A c \in DOMAIN state.event_counter :
            /\ c \in DOMAIN state'.event_counter
            /\ state'.event_counter[c] >= state.event_counter[c]]_vars

\* two events of 123 E on a page of foo.f90, the one with the culprit line
\* dispatched first
C27_Witness ==
    /\ disp.kind = "slurp"
    /\ disp.stage = 1
    /\ err = "none"
    /\ ~state.legacy_mode
    /\ disp.target = <<"foo.f90">>
    /\ disp.lines = <<Strip(MarkerParen), Strip(Marker123), Strip(Culprit)>>
    /\ Len(state.event_instances[Code123]) = 2
    /\ state.event_instances[Code123][1].culprit = Strip(Culprit)
    /\ state.event_instances[Code123][2].culprit = <<>>
    /\ state.file_events[<<"foo.f90">>] = state.event_instances[Code123]

\* C28: when exactly one of the two lines before a file-event marker
\* carries a location tag, the recorded file and line are those of the tag
\* in legacy mode and in current mode alike: the other mode, given the same
\* lines, records the same file and line.
C28_ModeIndependentLocation ==
    [][(FileEventStep /\ (HasTag(disp'.lines[2]) # HasTag(disp'.lines[3]))) =>
         LET c == re_err(disp'.lines[1]).g1
             tag == IF HasTag(disp'.lines[2]) THEN re_file(disp'.lines[2])
                    ELSE re_file(disp'.lines[3])
             other == FileEvent_slurp([state EXCEPT !.legacy_mode = ~@],
                                      disp'.target, disp'.lines[1],
                                      disp'.lines[2], disp'.lines[3])
         IN  /\ err' = "none"
             /\ AppendedOne(c)
             /\ LastOf(state', c).filename = tag.g1
             /\ LastOf(state', c).linenum = IntOf(tag.g2)
             /\ other.err = "none"
             /\ LastOf(other.st, c).filename = LastOf(state', c).filename
             /\ LastOf(other.st, c).linenum = LastOf(state', c).linenum]_vars

\* legacy mode with the lines in the order of the current format: the tag is
\* found on the other line, and the culprit, which current mode would have
\* recorded, is empty
C28_Witness ==
    /\ state.legacy_mode
    /\ disp.kind = "slurp"
    /\ disp.stage = 1
    /\ err = "none"
    /\ disp.lines = <<Strip(Marker123), Strip(Culprit), Strip(LocFoo)>>
    /\ LastOf(state, Code123)
         = [code |-> Code123, culprit |-> <<>>,
            filename |-> <<"foo.f90">>, linenum |-> 42]

\* C29: the window is only ever shifted: a form-feed line and the lines of a
\* page header leave it as it is, and every other line read, a sentinel
\* included, becomes its current line and moves the two lines before one
\* place back; a stage parser is handed the window as it then stands,
\* whatever page or stage the two older lines came from.
C29_WindowNeverReset ==
    [][(nread' = nread + 1) =>
         /\ disp'.kind \in {"formfeed", "header"} => lines' = lines
         /\ disp'.kind \in BodyKinds
              => lines' = <<Strip(disp'.raw), lines[1], lines[2]>>
         /\ disp'.kind = "slurp" => disp'.lines = lines']_vars

\* the first global event is handed the sentinel that started its stage as
\* previous line and a line of the file-event stage as previous-1 line
C29_Witness ==
    /\ disp.kind = "slurp"
    /\ disp.stage = 2
    /\ err = "none"
    /\ disp.lines = <<Strip(Marker2), GlobalSentinel, Strip(Culprit)>>
    /\ state.event_instances
         = (<<"2", " ", "W">> :> <<[code |-> <<"2", " ", "W">>,
                                    culprit |-> GlobalSentinel,
                                    filename |-> None, linenum |-> NoLine]>>)

\* C30: in the summary stage every line met while the page has a target
\* file aborts the parse with an AssertionError before a tally is compared
\* or a total stored; the stage changes the ParserState only on pages
\* without target file.
C30_SummaryNeedsNoTarget ==
    [][FedTo(4) =>
         /\ disp'.target # None
              => (pc' = "error" /\ err' = "AssertionError" /\ state' = state)
         /\ state' # state => disp'.target = None]_vars

\* a tally line that does not agree with the local count, on a page of
\* foo.f90: the parse is aborted and the flag is not set
C30_Witness ==
    /\ disp.kind = "slurp"
    /\ disp.stage = 4
    /\ disp.target = <<"foo.f90">>
    /\ disp.lines[1] = Strip(Tally123)
    /\ pc = "error"
    /\ err = "AssertionError"
    /\ ~state.debug_required
    /\ DOMAIN state.event_counter = {}

\* C31: debug_required is set only by a call that records an event of a
\* code that is not ignored with a message other than the one stored for
\* the code, or by a tally of a code that is not ignored whose count is not
\* the local count; so without such a call it is still false at the end,
\* whether or not every recorded code had a tally, and whatever the tallies
\* of ignored codes said.
C31_TwoCauses ==
    [][(~state.debug_required /\ state'.debug_required) =>
         /\ ncalls' = ncalls + 1
         /\ ~IgnoredCode(call'.code)
         /\ \/ /\ call'.op \in StoreOps
               /\ call'.code \in DOMAIN state.event_message
               /\ state.event_message[call'.code] # call'.message
            \/ /\ call'.op = "validate_sums"
               /\ IntOf(call'.num) # Get(state.event_counter, call'.code, 0)]_vars

\* two codes recorded, the tally of one of them agrees with its count, the
\* other has no tally: the flag is not set
C31_Witness ==
    /\ ~state.debug_required
    /\ err = "none"
    /\ ncalls = 3
    /\ call.op = "validate_sums"
    /\ ~IgnoredCode(call.code)
    /\ call.code \in DOMAIN state.event_instances
    /\ state.event_counter[call.code] = IntOf(call.num)
    /\ Cardinality(DOMAIN state.event_instances) = 2

====
